---- MODULE Spec2Model ----
(***************************************************************************)
(* sim_r: the particle simulator of the noisy-inference model with         *)
(* confidence, and its hazard-rate update upfun                            *)
(* (src/unnamed/part_001, lines 59-180).                                   *)
(*                                                                         *)
(* A log-belief is kept exactly: the value ln(p/q) is the record           *)
(* [ln |-> <<p, q>>] with p/q a positive rational in lowest terms, so that *)
(* +, unary -, multiplication by an integer, <, exp and log are exact.     *)
(* The IEEE values the arithmetic of the source can produce are kept as    *)
(* well: p/q = 1/0 is Inf, 0/1 is 0 (its log is -Inf) and 0/0 is NaN.      *)
(* The arrays of sim_r are kept as a two-row window: the row of the        *)
(* current trial iseq and, in prev, the row of trial iseq-1, the only      *)
(* other row the loop reads, and only when trial iseq continues a block;   *)
(* on the first trial of a block prev holds no row.  The inputs of trial   *)
(* iseq (seqind, seqllr, seqlen, cfg) are drawn by the step of the loop    *)
(* body that reads them.                                                   *)
(***************************************************************************)
EXTENDS Integers, Naturals, Sequences, FiniteSets, TLC

\* ------------------------------------------------------------------ bounds
NSmp == 2      \* nsmp, the number of particles
NSeq == 2      \* nseq, the number of trials of a run

VARIABLES
    h, sinf, ssel, scnf, tcnf, gcnf,   \* parameters of sim_r
    fitcnf, resamp,                    \* model variant / conditioning flags
    iseq, pc,                          \* loop counter and position in the loop body
    seqind, seqllr, seqlen, cfg,       \* inputs of trial iseq, as far as read
    xt, rbef, raft, cbef, caft, psmp,  \* row iseq of the output arrays
    prev,                              \* row iseq-1 of xt, raft, caft, psmp (seqind > 1)
    xr, xc, ires                       \* temporaries of the loop body

vars == <<h, sinf, ssel, scnf, tcnf, gcnf, fitcnf, resamp, iseq, pc,
          seqind, seqllr, seqlen, cfg, xt, rbef, raft, cbef, caft, psmp,
          prev, xr, xc, ires>>

params == <<h, sinf, ssel, scnf, tcnf, gcnf, fitcnf, resamp>>
inputs == <<seqind, seqllr, seqlen, cfg>>

Particles == 1..NSmp

\* ------------------------------------------------------ exact arithmetic
RECURSIVE Gcd(_, _)
Gcd(a, b) == IF b = 0 THEN a ELSE Gcd(b, a % b)

\* the rational p/q in lowest terms; 1/0 is Inf and 0/0 is NaN
Rat(p, q) == IF p = 0 /\ q = 0 THEN <<0, 0>>
             ELSE LET g == Gcd(p, q) IN <<p \div g, q \div g>>

\* a + b; Inf + Inf is Inf, and NaN + anything is NaN
RAdd(a, b) == IF a[2] = 0 /\ b[2] = 0 THEN <<a[1] * b[1], 0>>
              ELSE Rat(a[1] * b[2] + b[1] * a[2], a[2] * b[2])
RSub(a, b) == Rat(a[1] * b[2] - b[1] * a[2], a[2] * b[2])
RDiv(a, b) == Rat(a[1] * b[2], a[2] * b[1])
ROne == <<1, 1>>

RECURSIVE Pow(_, _)
Pow(b, k) == IF k = 0 THEN 1 ELSE b * Pow(b, k - 1)

\* log and exp between positive rationals and log-values
Log(r) == [ln |-> r]
Exp(x) == x.ln

Zero == Log(ROne)                                     \* the log-value 0
NotANumber == Log(<<0, 0>>)                           \* the log-value NaN
IsFinite(x) == x.ln[1] # 0 /\ x.ln[2] # 0             \* neither Inf, -Inf nor NaN
Add(x, y) == Log(Rat(x.ln[1] * y.ln[1], x.ln[2] * y.ln[2]))   \* x + y
Neg(x) == Log(<<x.ln[2], x.ln[1]>>)                           \* -x
Sub(x, y) == Add(x, Neg(y))                                   \* x - y
RECURSIVE Mul(_, _)
Mul(x, k) == IF k = 0 /\ ~IsFinite(x) THEN NotANumber          \* Inf * 0, NaN * 0
             ELSE IF k >= 0 THEN Log(<<Pow(x.ln[1], k), Pow(x.ln[2], k)>>)
             ELSE Mul(Neg(x), 0 - k)                          \* x * k, k an integer
Less(x, y) == x.ln[1] * y.ln[2] < y.ln[1] * x.ln[2]           \* x < y

\* sqrt of a perfect square
Sqrt(n) == CHOOSE k \in 0..n : k * k = n

\* ------------------------------------------------------------ value sets
NaN == -1                                   \* the NaN the label arrays start with
Labels == {1, 2}
Randn == {Log(<<1, 2>>), Log(<<2, 1>>)}     \* draws of a standard normal: -ln 2, +ln 2
HSet == {<<1, 4>>}                          \* hazard rates
\* hazard rates of the runs without noise: 0, and rates going down to 0
NoNoiseHSet == {<<0, 1>>, <<1, 2>>, <<1, 16>>}
\* noise standard deviations <<sinf, ssel, scnf>>: no noise, or one noise source
NoiseSet == {<<0, 0, 0>>, <<1, 0, 0>>, <<0, 1, 0>>, <<0, 0, 1>>}
TcnfSet == {Log(<<2, 1>>)}                  \* confidence thresholds: ln 2
GcnfSet == {2}                              \* confidence gains
SeqLLRSet == {Log(<<2, 1>>), Log(<<1, 2>>)} \* summed evidence of a trial: +ln 2, -ln 2
SeqLenSet == {4}                            \* samples in a trial

\* the values of a field of cfg(iseq): an observed label where the run reads
\* the field, and left out (NaN) where it does not
Read(isRead) == IF isRead THEN Labels ELSE {NaN}

zeros == [i \in Particles |-> Zero]
nans == [i \in Particles |-> NaN]
NoCfg == [raft |-> NaN, caft |-> NaN, rbef |-> NaN, cbef |-> NaN]
NoPrev == [xt |-> zeros, raft |-> nans, caft |-> nans, psmp |-> ROne]

\* ------------------------------------------------------- pure functions
\* variant of upfun: the second logarithm left out
upfun_OneSided(x, hz) ==
    LET r == RDiv(RSub(ROne, hz), hz)
    IN  Add(x, Log(RAdd(r, Exp(Neg(x)))))
\* variant of upfun: the two logarithms with exp(-x) and exp(+x) swapped
upfun_SwappedLogs(x, hz) ==
    LET r == RDiv(RSub(ROne, hz), hz)
    IN  Sub(Add(x, Log(RAdd(r, Exp(x)))), Log(RAdd(r, Exp(Neg(x)))))
\* variant of upfun: the hazard rate used where its odds (1-h)./h belong
upfun_HazardForOdds(x, hz) ==
    Sub(Add(x, Log(RAdd(hz, Exp(Neg(x))))), Log(RAdd(hz, Exp(x))))
\* x = x+log((1-h)./h+exp(-x))-log((1-h)./h+exp(+x))
upfun(x, hz) ==
    LET r == RDiv(RSub(ROne, hz), hz)
    IN  Sub(Add(x, Log(RAdd(r, Exp(Neg(x))))), Log(RAdd(r, Exp(x))))

\* variant of normrnd: sigma taken for a variance
normrnd_Variance(mu, sigma, z) == Add(mu, Mul(z, sigma * sigma))
\* normrnd(mu,sigma) with the standard normal draw z made explicit
normrnd(mu, sigma, z) == Add(mu, Mul(z, sigma))
\* the draws of one normrnd call on a row; with sigma = 0 the result is mu
\* whatever the draws are, and one vector of draws stands for all
Draws(sigma) ==
    IF sigma = 0 THEN {[i \in Particles |-> Zero]} ELSE [Particles -> Randn]

\* 1+(x < y)
OnePlusLess(x, y) == 1 + (IF Less(x, y) THEN 1 ELSE 0)

\* row-wise steps of the loop body, for one particle i
\* variant of beliefBefore: the belief of the previous trial carried over
\* without the hazard correction
beliefBefore_NoHazard(i) == IF seqind > 1 THEN prev.xt[i] ELSE xt[i]
\* xt(iseq,:) before the evidence is added
beliefBefore(i) == IF seqind > 1 THEN upfun(prev.xt[i], h) ELSE xt[i]

\* variants of response: the 1+ dropped; a zero decision variable answered 2
response_NoOffset(x) == IF Less(x, Zero) THEN 1 ELSE 0
response_ZeroIsTwo(x) == IF Less(Zero, x) THEN 1 ELSE 2
\* raft = 1+(xr < 0)
response(x) == OnePlusLess(x, Zero)

\* variant of iswi: the gain applied on repeats instead of switches
iswi_Repeat(r, rb) == r = rb
\* iswi = raft ~= rbef
iswi(r, rb) == r # rb
confidenceVariable(x, r, rb) ==
    LET signed == Mul(x, 3 - 2 * r)
    IN  IF iswi(r, rb) THEN Mul(signed, gcnf) ELSE signed

\* variants of confidence: the 1+ dropped; the threshold itself counted as high
confidence_NoOffset(x) == IF Less(tcnf, x) THEN 1 ELSE 0
confidence_AtThreshold(x) == IF Less(x, tcnf) THEN 1 ELSE 2
\* caft = 1+(xc > tcnf)
confidence(x) == OnePlusLess(tcnf, x)

\* variant of matches: the particles that differ from the observation kept
matches_Differs(i, c) == raft[i] # c.raft
\* variant of matches: the confidence never compared
matches_ResponseOnly(i, c) == raft[i] = c.raft
\* ires, with and without confidence, against the observation c
matches(i, c) ==
    IF fitcnf THEN raft[i] = c.raft /\ caft[i] = c.caft
    ELSE raft[i] = c.raft

\* variant of any: the bootstrap branch taken without a survivor
any_Unguarded(m) == TRUE
any(m) == \E i \in Particles : m[i]
count(m) == Cardinality({i \in Particles : m[i]})
\* variant of mean: the sum of ires, not divided by nsmp
mean_Sum(m) == Rat(count(m), 1)
mean(m) == Rat(count(m), NSmp)

\* variant of reset: the beliefs left as they are
reset_Keep == xt
\* variant of reset: the row replaced by the scalar 0, not filled with it
reset_Single == [i \in {1} |-> Zero]
\* variant of reset: the 0 written to the first particle only
reset_FirstOnly == [i \in Particles |-> IF i = 1 THEN Zero ELSE xt[i]]
\* xt(iseq,:) = 0
reset == zeros

\* find(m): the indices of the true entries, ascending
RECURSIVE findFrom(_, _)
findFrom(m, i) ==
    IF i > NSmp THEN <<>>
    ELSE IF m[i] THEN <<i>> \o findFrom(m, i + 1) ELSE findFrom(m, i + 1)
find(m) == findFrom(m, 1)

\* randsample(population,k,true): every vector of k draws with replacement.
\* A population that is a single non-negative integer n stands for 1:n.
randsample(population, k) ==
    IF Len(population) = 1
    THEN [1..k -> 1..population[1]]
    ELSE [1..k -> {population[j] : j \in 1..Len(population)}]

\* ------------------------------------------------------------------ Init
Init ==
    /\ h \in HSet
    /\ \E n \in NoiseSet : sinf = n[1] /\ ssel = n[2] /\ scnf = n[3]
    /\ tcnf \in TcnfSet
    /\ gcnf \in GcnfSet
    /\ fitcnf \in BOOLEAN
    /\ resamp \in BOOLEAN
    /\ iseq = 0
    /\ pc = "loop"
    /\ seqind = 0 /\ seqllr = Zero /\ seqlen = 0 /\ cfg = NoCfg
    /\ xt = zeros
    /\ rbef = nans /\ raft = nans /\ cbef = nans /\ caft = nans
    /\ psmp = ROne
    /\ prev = NoPrev
    /\ xr = zeros /\ xc = zeros
    /\ ires = [i \in Particles |-> FALSE]

\* the runs without noise, for every hazard rate of NoNoiseHSet
InitNoNoise ==
    /\ h \in NoNoiseHSet
    /\ sinf = 0 /\ ssel = 0 /\ scnf = 0
    /\ tcnf \in TcnfSet
    /\ gcnf \in GcnfSet
    /\ fitcnf \in BOOLEAN
    /\ resamp \in BOOLEAN
    /\ iseq = 0
    /\ pc = "loop"
    /\ seqind = 0 /\ seqllr = Zero /\ seqlen = 0 /\ cfg = NoCfg
    /\ xt = zeros
    /\ rbef = nans /\ raft = nans /\ cbef = nans /\ caft = nans
    /\ psmp = ROne
    /\ prev = NoPrev
    /\ xr = zeros /\ xc = zeros
    /\ ires = [i \in Particles |-> FALSE]

\* --------------------------------------------------------------- actions
\* variant of Loop: the row of the new trial starts from the belief of the
\* trial before, not from 0
Loop_KeepsBelief ==
    /\ pc = "loop"
    /\ iseq < NSeq
    /\ iseq' = iseq + 1
    /\ seqind' \in (IF iseq = 0 THEN {1} ELSE {1, seqind + 1})
    /\ seqllr' = Zero /\ seqlen' = 0 /\ cfg' = NoCfg
    /\ prev' = IF seqind' > 1
               THEN [xt |-> xt, raft |-> raft, caft |-> caft, psmp |-> psmp]
               ELSE NoPrev
    /\ xt' = xt
    /\ rbef' = nans /\ raft' = nans /\ cbef' = nans /\ caft' = nans
    /\ psmp' = ROne
    /\ xr' = zeros /\ xc' = zeros
    /\ ires' = [i \in Particles |-> FALSE]
    /\ pc' = "state"
    /\ UNCHANGED params
\* variant of Loop: the survival weights start at 0, not at 1
Loop_ZeroWeight ==
    /\ pc = "loop"
    /\ iseq < NSeq
    /\ iseq' = iseq + 1
    /\ seqind' \in (IF iseq = 0 THEN {1} ELSE {1, seqind + 1})
    /\ seqllr' = Zero /\ seqlen' = 0 /\ cfg' = NoCfg
    /\ prev' = IF seqind' > 1
               THEN [xt |-> xt, raft |-> raft, caft |-> caft, psmp |-> psmp]
               ELSE NoPrev
    /\ xt' = zeros
    /\ rbef' = nans /\ raft' = nans /\ cbef' = nans /\ caft' = nans
    /\ psmp' = <<0, 1>>
    /\ xr' = zeros /\ xc' = zeros
    /\ ires' = [i \in Particles |-> FALSE]
    /\ pc' = "state"
    /\ UNCHANGED params
\* for iseq = 1:nseq -- take the next trial; after trial nseq the run is over
Loop ==
    /\ pc = "loop"
    /\ iseq < NSeq
    /\ iseq' = iseq + 1
    /\ seqind' \in (IF iseq = 0 THEN {1} ELSE {1, seqind + 1})
    /\ seqllr' = Zero /\ seqlen' = 0 /\ cfg' = NoCfg
    /\ prev' = IF seqind' > 1
               THEN [xt |-> xt, raft |-> raft, caft |-> caft, psmp |-> psmp]
               ELSE NoPrev
    /\ xt' = zeros
    /\ rbef' = nans /\ raft' = nans /\ cbef' = nans /\ caft' = nans
    /\ psmp' = ROne
    /\ xr' = zeros /\ xc' = zeros
    /\ ires' = [i \in Particles |-> FALSE]
    /\ pc' = "state"
    /\ UNCHANGED params

\* variant of SetState: the first trial of a block not told apart, the
\* state always taken from the row of the trial before
SetState_NoBlockStart ==
    /\ pc = "state"
    /\ rbef' = prev.raft
    /\ cbef' = IF fitcnf THEN prev.caft ELSE cbef
    /\ cfg' = cfg
    /\ pc' = "update"
    /\ UNCHANGED <<params, iseq, seqind, seqllr, seqlen, xt, raft, caft, psmp,
                   prev, xr, xc, ires>>
\* set state before sequence
SetState ==
    /\ pc = "state"
    /\ IF seqind > 1
       THEN /\ rbef' = prev.raft
            /\ cbef' = IF fitcnf THEN prev.caft ELSE cbef
            /\ cfg' = cfg
       ELSE \E rb \in Labels : \E cb \in Read(fitcnf) :
              /\ cfg' = [cfg EXCEPT !.rbef = rb, !.cbef = cb]
              /\ rbef' = [i \in Particles |-> cfg'.rbef]
              /\ cbef' = IF fitcnf THEN [i \in Particles |-> cfg'.cbef] ELSE cbef
    /\ pc' = "update"
    /\ UNCHANGED <<params, iseq, seqind, seqllr, seqlen, xt, raft, caft, psmp,
                   prev, xr, xc, ires>>

\* variant of UpdateLogBelief: the draw of the first particle used for the
\* whole row
UpdateLogBelief_SharedDraw ==
    /\ pc = "update"
    /\ seqllr' \in SeqLLRSet
    /\ seqlen' \in SeqLenSet
    /\ \E z \in Draws(Sqrt(seqlen') * sinf) :
         xt' = [i \in Particles |->
                  normrnd(Add(beliefBefore(i), seqllr'), Sqrt(seqlen') * sinf, z[1])]
    /\ pc' = "response"
    /\ UNCHANGED <<params, iseq, seqind, cfg, rbef, raft, cbef, caft, psmp, prev,
                   xr, xc, ires>>
\* variant of UpdateLogBelief: the inference noise of a single sample, not
\* scaled by sqrt(seqlen)
UpdateLogBelief_UnscaledNoise ==
    /\ pc = "update"
    /\ seqllr' \in SeqLLRSet
    /\ seqlen' \in SeqLenSet
    /\ \E z \in Draws(sinf) :
         xt' = [i \in Particles |->
                  normrnd(Add(beliefBefore(i), seqllr'), sinf, z[i])]
    /\ pc' = "response"
    /\ UNCHANGED <<params, iseq, seqind, cfg, rbef, raft, cbef, caft, psmp, prev,
                   xr, xc, ires>>
\* variant of UpdateLogBelief: the scaled noise written back to sinf
UpdateLogBelief_ScalesSinf ==
    /\ pc = "update"
    /\ seqllr' \in SeqLLRSet
    /\ seqlen' \in SeqLenSet
    /\ sinf' = Sqrt(seqlen') * sinf
    /\ \E z \in Draws(sinf') :
         xt' = [i \in Particles |->
                  normrnd(Add(beliefBefore(i), seqllr'), sinf', z[i])]
    /\ pc' = "response"
    /\ UNCHANGED <<h, ssel, scnf, tcnf, gcnf, fitcnf, resamp, iseq, seqind, cfg,
                   rbef, raft, cbef, caft, psmp, prev, xr, xc, ires>>
\* update log-belief
UpdateLogBelief ==
    /\ pc = "update"
    /\ seqllr' \in SeqLLRSet
    /\ seqlen' \in SeqLenSet
    /\ \E z \in Draws(Sqrt(seqlen') * sinf) :
         xt' = [i \in Particles |->
                  normrnd(Add(beliefBefore(i), seqllr'), Sqrt(seqlen') * sinf, z[i])]
    /\ pc' = "response"
    /\ UNCHANGED <<params, iseq, seqind, cfg, rbef, raft, cbef, caft, psmp, prev,
                   xr, xc, ires>>

\* variant of ComputeResponse: the selection noise written into the belief
ComputeResponse_NoisyBelief ==
    /\ pc = "response"
    /\ \E z \in Draws(ssel) :
         LET x == [i \in Particles |-> normrnd(xt[i], ssel, z[i])]
         IN  /\ xr' = x
             /\ xt' = x
             /\ raft' = [i \in Particles |-> response(x[i])]
    /\ pc' = "confidence"
    /\ UNCHANGED <<params, iseq, inputs, rbef, cbef, caft, psmp, prev, xc, ires>>
\* apply selection noise, compute response
ComputeResponse ==
    /\ pc = "response"
    /\ \E z \in Draws(ssel) :
         LET x == [i \in Particles |-> normrnd(xt[i], ssel, z[i])]
         IN  /\ xr' = x
             /\ raft' = [i \in Particles |-> response(x[i])]
    /\ pc' = "confidence"
    /\ UNCHANGED <<params, iseq, inputs, xt, rbef, cbef, caft, psmp, prev, xc, ires>>

\* compute confidence (if fitcnf)
ComputeConfidence ==
    /\ pc = "confidence"
    /\ IF fitcnf
       THEN \E z \in Draws(scnf) :
              LET x == [i \in Particles |->
                          normrnd(confidenceVariable(xt[i], raft[i], rbef[i]),
                                  scnf, z[i])]
              IN  /\ xc' = x
                  /\ caft' = [i \in Particles |-> confidence(x[i])]
       ELSE UNCHANGED <<xc, caft>>
    /\ pc' = "resample"
    /\ UNCHANGED <<params, iseq, inputs, xt, rbef, raft, cbef, psmp, prev, xr, ires>>

\* variant of Resample: the whole particle resampled, its response and its
\* confidence copied along with its belief
Resample_CopiesOutputs ==
    /\ pc = "resample"
    /\ IF resamp
       THEN \E ra \in Labels : \E ca \in Read(fitcnf) :
            LET c == [cfg EXCEPT !.raft = ra, !.caft = ca]
                m == [i \in Particles |-> matches(i, c)]
            IN  /\ cfg' = c
                /\ ires' = m
                /\ psmp' = mean(m)
                /\ pc' = "loop"
                /\ IF any(m)
                   THEN \E idx \in randsample(find(m), NSmp) :
                          /\ xt' = [i \in Particles |-> xt[idx[i]]]
                          /\ raft' = [i \in Particles |-> raft[idx[i]]]
                          /\ caft' = [i \in Particles |-> caft[idx[i]]]
                   ELSE xt' = reset /\ UNCHANGED <<raft, caft>>
       ELSE pc' = "loop" /\ UNCHANGED <<ires, psmp, xt, cfg, raft, caft>>
    /\ UNCHANGED <<params, iseq, seqind, seqllr, seqlen, rbef, cbef, prev, xr, xc>>
\* variant of Resample: the resampling done whether or not the run is
\* conditioned on the observations
Resample_Unconditional ==
    /\ pc = "resample"
    /\ \E ra \in Labels : \E ca \in Read(fitcnf) :
         LET c == [cfg EXCEPT !.raft = ra, !.caft = ca]
             m == [i \in Particles |-> matches(i, c)]
         IN  /\ cfg' = c
             /\ ires' = m
             /\ psmp' = mean(m)
             /\ IF any(m)
                THEN \E idx \in randsample(find(m), NSmp) :
                       xt' = [i \in Particles |-> xt[idx[i]]]
                ELSE xt' = reset
             /\ pc' = "loop"
    /\ UNCHANGED <<params, iseq, seqind, seqllr, seqlen, rbef, raft, cbef, caft, prev, xr, xc>>
\* resample log-belief (if resamp)
Resample ==
    /\ pc = "resample"
    /\ IF resamp
       THEN \E ra \in Labels : \E ca \in Read(fitcnf) :
            LET c == [cfg EXCEPT !.raft = ra, !.caft = ca]
                m == [i \in Particles |-> matches(i, c)]
            IN  /\ cfg' = c
                /\ ires' = m
                /\ psmp' = mean(m)
                /\ IF any(m)
                   THEN IF Len(find(m)) = 0
                        THEN pc' = "error" /\ xt' = xt
                        ELSE /\ \E idx \in randsample(find(m), NSmp) :
                                  xt' = [i \in Particles |-> xt[idx[i]]]
                             /\ pc' = "loop"
                   ELSE xt' = reset /\ pc' = "loop"
       ELSE pc' = "loop" /\ UNCHANGED <<ires, psmp, xt, cfg>>
    /\ UNCHANGED <<params, iseq, seqind, seqllr, seqlen, rbef, raft, cbef, caft, prev, xr, xc>>

Next ==
    \/ Loop
    \/ SetState
    \/ UpdateLogBelief
    \/ ComputeResponse
    \/ ComputeConfidence
    \/ Resample

Spec == Init /\ [][Next]_vars
SpecNoNoise == InitNoNoise /\ [][Next]_vars

\* the normrnd draws a particle has received so far in trial iseq: one from
\* each normrnd call on the row that the loop body has passed
noiseDraws ==
    IF iseq = 0 \/ pc \in {"state", "update"} THEN 0
    ELSE IF pc = "response" THEN 1
    ELSE IF pc = "confidence" \/ ~fitcnf THEN 2
    ELSE 3

\* ---------------------------------------------------------------- claims
\* trial iseq has run to the end of the loop body
TrialDone == iseq >= 1 /\ pc = "loop"
\* the particles that reproduce the observation c of trial iseq
SurvivorsOf(c) ==
    {i \in Particles : raft[i] = c.raft /\ (fitcnf => caft[i] = c.caft)}
\* ... the observation cfg read by the resampling step that has run
Survivors == SurvivorsOf(cfg)
\* the resampling step of a conditioned trial is about to run
AtResample == pc = "resample" /\ resamp
\* the rational r lies in [0,1]
InUnitInterval(r) == r[2] > 0 /\ 0 <= r[1] /\ r[1] <= r[2]
\* the log-belief x signed in favour of response r
Signed(x, r) == IF r = 1 THEN x ELSE Neg(x)

\* C1 -- bootstrap closure: in a conditioned trial with at least one
\* survivor, every particle's belief after resampling is the belief some
\* survivor had before resampling.
C1_BootstrapClosure ==
    [][(AtResample /\ SurvivorsOf(cfg') # {})
         => \A i \in Particles : \E j \in SurvivorsOf(cfg') : xt'[i] = xt[j]]_vars

\* C2 -- the survival weight of a conditioned trial is the number of
\* survivors divided by the population size; it lies in [0,1] and is 1
\* exactly when every particle survives.
C2_SurvivalWeight ==
    (TrialDone /\ resamp)
      => /\ psmp[1] * NSmp = psmp[2] * Cardinality(Survivors)
         /\ InUnitInterval(psmp)
         /\ (psmp = ROne <=> Survivors = Particles)
C2_Witness ==
    /\ TrialDone /\ resamp
    /\ Survivors # {} /\ Survivors # Particles
    /\ psmp # ROne /\ psmp[1] > 0

\* C3 -- in a conditioned trial the survival weight is 0 exactly when no
\* particle survives; exactly then every belief is set to 0, and otherwise
\* every belief is a copy of a pre-resampling belief.
C3_ResetIffNoSurvivor ==
    [][AtResample
         => /\ (psmp'[1] = 0 <=> SurvivorsOf(cfg') = {})
            /\ (SurvivorsOf(cfg') = {} => \A i \in Particles : xt'[i] = Zero)
            /\ (SurvivorsOf(cfg') # {}
                  => \A i \in Particles : \E j \in Particles : xt'[i] = xt[j])]_vars
C3_Witness ==
    /\ TrialDone /\ resamp
    /\ Survivors = {}
    /\ psmp = <<0, 1>>
    /\ \A i \in Particles : xt[i] = Zero /\ xr[i] # Zero

\* C4 -- a trial without survivor raises no error: its resampling step ends
\* the trial with the responses kept and weight 0, the next trial (if any)
\* can start, and every finished trial has a response for every particle
\* and a survival weight.
C4_NoSurvivorNoError ==
    /\ [](/\ pc # "error"
          /\ (TrialDone /\ resamp /\ psmp[1] = 0 /\ iseq < NSeq) => ENABLED Loop
          /\ (TrialDone => /\ \A i \in Particles : raft[i] \in Labels
                           /\ InUnitInterval(psmp)))
    /\ [][(AtResample /\ SurvivorsOf(cfg') = {})
            => (pc' = "loop" /\ iseq' = iseq /\ raft' = raft /\ psmp'[1] = 0)]_vars
C4_Witness ==
    /\ resamp /\ iseq > 1 /\ TrialDone
    /\ prev.psmp = <<0, 1>>
    /\ \A i \in Particles : raft[i] \in Labels

\* C5 -- once computed, and so after every trial, every particle's response
\* raft is 1 or 2.
C5_ResponseLabel ==
    (iseq >= 1 /\ pc \in {"confidence", "resample", "loop"})
      => \A i \in Particles : raft[i] \in {1, 2}
C5_Witness ==
    /\ TrialDone
    /\ \E i, j \in Particles : raft[i] = 1 /\ raft[j] = 2

\* C6 (as stated) -- after every trial of every run every particle's
\* confidence caft is 1 or 2.
C6_ConfidenceLabelAlways ==
    TrialDone => \A i \in Particles : caft[i] \in {1, 2}
\* C6 (amended) -- after every trial of a run that fits confidence every
\* particle's confidence caft is 1 or 2; a run that does not fit confidence
\* never computes caft, which stays NaN.
C6_ConfidenceLabel ==
    /\ (TrialDone /\ fitcnf) => \A i \in Particles : caft[i] \in {1, 2}
    /\ ~fitcnf => \A i \in Particles : caft[i] = NaN
C6_Witness ==
    /\ TrialDone /\ fitcnf
    /\ \E i, j \in Particles : caft[i] = 1 /\ caft[j] = 2

\* C7 -- matching rule: a particle is marked surviving exactly when its
\* response equals the observed response and, if confidence is fitted, its
\* confidence equals the observed confidence; without fitted confidence the
\* confidence plays no part.
C7_MatchingRule ==
    (TrialDone /\ resamp)
      => \A i \in Particles :
           ires[i] <=> IF fitcnf
                       THEN raft[i] = cfg.raft /\ caft[i] = cfg.caft
                       ELSE raft[i] = cfg.raft
C7_Witness ==
    /\ TrialDone /\ resamp /\ fitcnf
    /\ \E i, j \in Particles :
         /\ raft[i] = cfg.raft /\ caft[i] # cfg.caft /\ ~ires[i]
         /\ ires[j]

\* C8 -- response rule: the response is 2 exactly when the decision variable
\* xr, the log-belief plus selection noise, is below 0, and 1 otherwise;
\* xr = 0 gives 1.
C8_ResponseRule ==
    (pc \in {"confidence", "resample"})
      => \A i \in Particles :
           /\ raft[i] = 2 <=> Less(xr[i], Zero)
           /\ raft[i] = 1 <=> ~Less(xr[i], Zero)
           /\ \E z \in Randn : xr[i] = Add(xt[i], Mul(z, ssel))
C8_Witness ==
    /\ pc = "confidence"
    /\ \E i \in Particles : xr[i] = Zero /\ xt[i] # Zero /\ raft[i] = 1

\* C9 -- confidence rule: the confidence is 2 exactly when the noisy
\* confidence variable xc is above tcnf, and 1 otherwise (also at equality);
\* xc is built from the log-belief xt, not from xr, signed +1 for response 1
\* and -1 for response 2, scaled by 1 or by the gain, plus confidence noise.
C9_ConfidenceRule ==
    (pc = "resample" /\ fitcnf)
      => \A i \in Particles :
           /\ caft[i] = 2 <=> Less(tcnf, xc[i])
           /\ caft[i] = 1 <=> ~Less(tcnf, xc[i])
           /\ \E g \in {1, gcnf} : \E z \in Randn :
                xc[i] = Add(Mul(Signed(xt[i], raft[i]), g), Mul(z, scnf))
C9_Witness ==
    /\ pc = "resample" /\ fitcnf
    /\ \E i \in Particles : xc[i] = tcnf /\ caft[i] = 1
    /\ \E i \in Particles : Less(tcnf, xc[i]) /\ caft[i] = 2

\* C10 -- the gain gcnf multiplies the confidence variable of exactly the
\* particles whose response differs from their previous response rbef, and
\* of no other; on the first trial of a block rbef is the subject's observed
\* previous response.
C10_GainOnSwitch ==
    (pc = "resample" /\ fitcnf)
      => \A i \in Particles :
           /\ \E z \in Randn :
                xc[i] = Add(IF raft[i] # rbef[i]
                            THEN Mul(Signed(xt[i], raft[i]), gcnf)
                            ELSE Signed(xt[i], raft[i]),
                            Mul(z, scnf))
           /\ seqind = 1 => rbef[i] = cfg.rbef
C10_Witness ==
    /\ pc = "resample" /\ fitcnf /\ seqind = 1 /\ scnf = 0 /\ gcnf # 1
    /\ \E i, j \in Particles :
         /\ raft[i] # rbef[i] /\ xt[i] # Zero
         /\ xc[i] = Mul(Signed(xt[i], raft[i]), gcnf)
         /\ raft[j] = rbef[j] /\ xt[j] # Zero
         /\ xc[j] = Signed(xt[j], raft[j])

\* the belief of particle i before the evidence of trial iseq is added, as
\* the update step about to run computes it from the row of trial iseq-1
Corrected(i) == IF seqind > 1 THEN upfun(prev.xt[i], h) ELSE Zero

\* C11 -- the hazard correction is applied exactly on the trials that are
\* not the first of their block; it is applied to the belief the previous
\* trial ended with (after its resampling step, if any), and the evidence
\* and the inference noise are added to the corrected belief.  On the first
\* trial of a block the evidence is added to 0.
C11_HazardCorrection ==
    [][/\ (pc = "loop" /\ seqind' > 1) => prev'.xt = xt
       /\ pc = "update"
            => \A i \in Particles :
                 /\ \E z \in Randn :
                      xt'[i] = Add(Add(Corrected(i), seqllr'),
                                   Mul(z, Sqrt(seqlen') * sinf))
                 /\ (seqind > 1 /\ prev.xt[i] # Zero /\ sinf = 0)
                      => xt'[i] # Add(prev.xt[i], seqllr')]_vars
C11_Witness ==
    /\ pc = "response" /\ seqind > 1 /\ resamp /\ sinf = 0
    /\ prev.psmp[1] > 0
    /\ \E i \in Particles :
         /\ prev.xt[i] # Zero
         /\ xt[i] = Add(upfun(prev.xt[i], h), seqllr)
         /\ xt[i] # Add(prev.xt[i], seqllr)

\* C12 -- previous-state seeding: on the first trial of a block every
\* particle's previous response (and, if confidence is fitted, previous
\* confidence) is the subject's observed one for that trial; on any other
\* trial it is the response (confidence) the same particle gave on the trial
\* just before.
C12_PreviousStateSeeding ==
    [][/\ (pc = "loop" /\ seqind' > 1) => (prev'.raft = raft /\ prev'.caft = caft)
       /\ pc = "state"
            => \A i \in Particles :
                 /\ rbef'[i] \in Labels
                 /\ rbef'[i] = IF seqind = 1 THEN cfg'.rbef ELSE prev.raft[i]
                 /\ fitcnf => /\ cbef'[i] \in Labels
                              /\ cbef'[i] = IF seqind = 1 THEN cfg'.cbef
                                            ELSE prev.caft[i]]_vars
C12_Witness ==
    /\ pc = "update" /\ seqind > 1 /\ fitcnf
    /\ rbef = prev.raft /\ cbef = prev.caft
    /\ \E i, j \in Particles : rbef[i] = 1 /\ rbef[j] = 2
    /\ \E i, j \in Particles : cbef[i] = 1 /\ cbef[j] = 2

\* C13 -- in a run that is not conditioned on the observations the
\* resampling step does nothing: it leaves every belief, the survival weight
\* and the observations untouched, so that at the end of every trial each
\* particle carries the belief its own update gave it (the one its response
\* was drawn from), never a copy of another particle's and never a reset.
C13_ForwardSimulation ==
    /\ [](~resamp
            => /\ psmp = ROne /\ cfg.raft = NaN /\ cfg.caft = NaN
               /\ \A i \in Particles : ~ires[i]
               /\ (iseq >= 1 /\ pc \in {"confidence", "resample", "loop"})
                    => \A i \in Particles :
                         \E z \in Randn : xr[i] = Add(xt[i], Mul(z, ssel)))
    /\ [][(pc = "resample" /\ ~resamp)
            => (xt' = xt /\ psmp' = psmp /\ ires' = ires /\ cfg' = cfg
                /\ pc' = "loop")]_vars
C13_Witness ==
    /\ TrialDone /\ ~resamp /\ seqind > 1 /\ ssel = 0
    /\ xt = xr
    /\ \E i, j \in Particles : xt[i] # xt[j] /\ xt[i] # Zero /\ xt[j] # Zero

\* no noise of any of the three kinds
NoNoise == sinf = 0 /\ ssel = 0 /\ scnf = 0
\* the evidence accumulated since the block start, on the first two trials
\* of a block of a run without noise and without conditioning: the first
\* trial's belief is its evidence
Accumulated(i) == IF seqind = 1 THEN seqllr ELSE Add(prev.xt[i], seqllr)

\* C14 -- without noise and with hazard rate 0 every particle's response is
\* 1 when the evidence accumulated since the block start is >= 0 and 2 when
\* it is < 0 (stated for the first trial of a block and, in a run without
\* conditioning, the second).
C14_SignClassifier ==
    (/\ NoNoise /\ h = <<0, 1>>
     /\ iseq >= 1 /\ pc \in {"confidence", "resample", "loop"}
     /\ (seqind = 1 \/ (seqind = 2 /\ ~resamp)))
      => \A i \in Particles :
           raft[i] = IF Less(Accumulated(i), Zero) THEN 2 ELSE 1

\* a * b and a <= b on non-negative rationals
RMul(a, b) == Rat(a[1] * b[1], a[2] * b[2])
RLeq(a, b) == a[1] * b[2] <= b[1] * a[2]
\* the belief of trial iseq before its evidence was added, in a run
\* without noise
BeforeEvidence(i) == Sub(xt[i], seqllr)

\* C15 -- as h goes down to 0 the hazard correction leaves a finite belief
\* unchanged: for 0 < h < 1 and finite x, exp(upfun(x,h) - x) lies between
\* 1 and 1 -/+ |exp(x) - exp(-x)| * h/(1-h), on the side of 0, and this
\* distance from 1 vanishes with h; upfun(0,h) = 0.
C15_NoHazardLimit ==
    (/\ NoNoise /\ h[1] > 0
     /\ pc \in {"response", "confidence", "resample"} /\ seqind > 1)
      => \A i \in Particles :
           LET x == prev.xt[i]
               ratio == Exp(Sub(BeforeEvidence(i), x))
               odds == RDiv(h, RSub(ROne, h))
           IN  /\ IsFinite(x) /\ IsFinite(BeforeEvidence(i))
               /\ x = Zero => ratio = ROne
               /\ Less(Zero, x)
                    => /\ RLeq(ratio, ROne)
                       /\ RLeq(RSub(ROne, ratio),
                               RMul(RSub(Exp(x), Exp(Neg(x))), odds))
               /\ Less(x, Zero)
                    => /\ RLeq(ROne, ratio)
                       /\ RLeq(RSub(ratio, ROne),
                               RMul(RSub(Exp(Neg(x)), Exp(x)), odds))
C15_Witness ==
    /\ NoNoise /\ h = <<1, 16>> /\ pc = "response" /\ seqind > 1
    /\ \E i \in Particles :
         /\ Less(Zero, prev.xt[i])
         /\ Less(BeforeEvidence(i), prev.xt[i])
         /\ Less(Add(prev.xt[i], Log(<<9, 10>>)), BeforeEvidence(i))

\* C16 -- scenario: no noise, a first trial of a block with positive summed
\* evidence.  Every particle answers 1.  Conditioned on an observed response
\* 1 the survival weight is 1 (when confidence is fitted: provided the
\* observed confidence is the particles' confidence too) and the beliefs are
\* kept; conditioned on an observed response 2 the survival weight is 0 and
\* every belief is 0, which is what a next trial of the block starts from.
C16_Scenario ==
    /\ (/\ NoNoise /\ seqind = 1 /\ Less(Zero, seqllr)
        /\ pc \in {"confidence", "resample", "loop"})
         => /\ \A i \in Particles : raft[i] = 1
            /\ (pc = "loop" /\ resamp /\ cfg.raft = 1
                  /\ \A i \in Particles : fitcnf => caft[i] = cfg.caft)
                 => (psmp = ROne /\ \A i \in Particles : xt[i] = seqllr)
            /\ (pc = "loop" /\ resamp /\ cfg.raft = 2)
                 => (psmp = <<0, 1>> /\ \A i \in Particles : xt[i] = Zero)
    /\ (resamp /\ seqind > 1 /\ prev.psmp = <<0, 1>>)
         => \A i \in Particles : prev.xt[i] = Zero
C16_Witness ==
    /\ NoNoise /\ resamp /\ ~fitcnf /\ iseq = 2 /\ seqind = 2 /\ pc = "state"
    /\ prev.psmp = <<0, 1>>
    /\ \A i \in Particles : prev.raft[i] = 1 /\ prev.xt[i] = Zero

\* 0 < h < 1 and no negative noise standard deviation
ValidParams == 0 < h[1] /\ h[1] < h[2] /\ sinf >= 0 /\ ssel >= 0 /\ scnf >= 0

\* C18 -- a parameter set with h outside (0,1) or a negative noise standard
\* deviation is rejected before any trial is simulated: no trial of such a
\* run is ever started.
C18_InvalidRejected == ~ValidParams => iseq = 0

\* the row has one entry per particle, nsmp in all
OnePerParticle(row) == DOMAIN row = Particles /\ Cardinality(DOMAIN row) = NSmp

\* C19 -- the belief, response and confidence populations have exactly nsmp
\* entries, one per particle, in every state of a run: after every step of
\* every trial, after a bootstrap resampling and after a reset to 0.
C19_PopulationSize ==
    /\ OnePerParticle(xt) /\ OnePerParticle(prev.xt)
    /\ OnePerParticle(raft) /\ OnePerParticle(prev.raft) /\ OnePerParticle(rbef)
    /\ OnePerParticle(caft) /\ OnePerParticle(prev.caft) /\ OnePerParticle(cbef)
C19_Witness ==
    /\ TrialDone /\ resamp /\ iseq > 1
    /\ prev.psmp = <<0, 1>> /\ prev.xt = zeros
    /\ Survivors # {} /\ Survivors # Particles
    /\ Cardinality(DOMAIN xt) = NSmp

\* the fields of cfg(iseq)
CfgFields == {"raft", "caft", "rbef", "cbef"}

\* C20 -- no step of a run changes a parameter (h, sinf, ssel, scnf, tcnf,
\* gcnf), and no step changes an input of the trial it belongs to: the block
\* index, and, from the moment the trial has read them, the evidence, the
\* sequence length and the observed responses and confidences.
C20_InputsUnchanged ==
    [][/\ h' = h /\ sinf' = sinf /\ ssel' = ssel /\ scnf' = scnf
       /\ tcnf' = tcnf /\ gcnf' = gcnf
       /\ iseq' = iseq
            => /\ seqind' = seqind
               /\ seqlen # 0 => (seqlen' = seqlen /\ seqllr' = seqllr)
               /\ \A f \in CfgFields : cfg[f] # NaN => cfg'[f] = cfg[f]]_vars
C20_Witness ==
    /\ TrialDone /\ iseq > 1 /\ seqind = 1 /\ fitcnf /\ resamp
    /\ sinf = 1 /\ h = <<1, 4>> /\ seqlen = 4 /\ seqllr # Zero
    /\ \A f \in CfgFields : cfg[f] \in Labels

\* the belief of trial iseq has its evidence and has not been resampled
AfterEvidence == iseq >= 1 /\ pc \in {"response", "confidence", "resample"}
\* the inference noise particle i received on trial iseq
InferenceNoise(i) == Sub(xt[i], Add(Corrected(i), seqllr))

\* C21 -- evidence accumulation: the belief after the evidence is the
\* belief before it (hazard-corrected, or 0 at a block start) plus the
\* trial's summed log-likelihood ratio plus one standard normal draw times
\* sqrt(seqlen) * sinf; with sinf = 0 it is exactly belief plus evidence.
C21_EvidenceAccumulation ==
    AfterEvidence
      => \A i \in Particles :
           /\ Sqrt(seqlen) * Sqrt(seqlen) = seqlen
           /\ \E z \in Randn :
                InferenceNoise(i) = Mul(Mul(z, sinf), Sqrt(seqlen))
           /\ sinf = 0 => xt[i] = Add(Corrected(i), seqllr)
C21_Witness ==
    /\ pc = "response" /\ sinf = 1 /\ seqlen = 4 /\ seqind > 1
    /\ \E i, j \in Particles :
         /\ prev.xt[i] # Zero
         /\ InferenceNoise(i) = Log(<<4, 1>>)
         /\ InferenceNoise(j) = Log(<<1, 4>>)

AfterReadout ==
    iseq >= 1 /\ (pc = "resample" \/ (pc = "loop" /\ ~resamp))

\* C23 -- the readout leaves the belief alone: after the response and the
\* confidence of a trial are computed, with whatever selection noise,
\* confidence noise and gain, the belief that goes to resampling (and, in a
\* run without conditioning, to the next trial) is still belief before plus
\* evidence plus inference noise, while the noise shows in xr and xc only.
C23_ReadoutKeepsBelief ==
    AfterReadout
      => \A i \in Particles :
           /\ \E z \in Randn :
                xt[i] = Add(Add(Corrected(i), seqllr), Mul(z, Sqrt(seqlen) * sinf))
           /\ \E z \in Randn : xr[i] = Add(xt[i], Mul(z, ssel))
           /\ fitcnf => \E g \in {1, gcnf} : \E z \in Randn :
                xc[i] = Add(Mul(Signed(xt[i], raft[i]), g), Mul(z, scnf))
C23_Witness ==
    /\ AfterReadout /\ pc = "loop" /\ ssel = 1 /\ seqind > 1
    /\ \E i \in Particles :
         /\ xr[i] # xt[i]
         /\ xt[i] = Add(upfun(prev.xt[i], h), seqllr)

\* what particle i alone can come to: its beliefs after evidence l over n
\* samples, its responses and its confidences, from its own column of the
\* state, the shared inputs and one draw of its own
OwnBeliefs(i, l, n) ==
    {Add(Add(Corrected(i), l), Mul(z, Sqrt(n) * sinf)) : z \in Randn}
OwnResponses(i) ==
    {OnePlusLess(Add(xt[i], Mul(z, ssel)), Zero) : z \in Randn}
OwnConfidences(i) ==
    LET signed == Signed(xt[i], raft[i])
        gained == IF raft[i] # rbef[i] THEN Mul(signed, gcnf) ELSE signed
    IN  {OnePlusLess(tcnf, Add(gained, Mul(z, scnf))) : z \in Randn}

\* C24 -- particle independence up to the resampling step.  In every
\* trial a particle's belief, response and confidence are among what it
\* alone can come to, from its own previous state, its own draw and the
\* shared inputs.  On the first trial of a block, moreover, the rows the
\* update, the response and the confidence step can produce are exactly the
\* combinations of the particles' own outcomes: whatever the other
\* particles draw, a particle keeps every outcome of its own.
C24_ParticleIndependence ==
    /\ AfterEvidence
         => \A i \in Particles : xt[i] \in OwnBeliefs(i, seqllr, seqlen)
    /\ (iseq >= 1 /\ pc = "confidence")
         => \A i \in Particles : raft[i] \in OwnResponses(i)
    /\ (iseq >= 1 /\ pc = "resample" /\ fitcnf)
         => \A i \in Particles : caft[i] \in OwnConfidences(i)
    /\ (pc = "update" /\ seqind = 1)
         => \A l \in SeqLLRSet : \A n \in SeqLenSet :
              \A row \in [Particles -> UNION {OwnBeliefs(i, l, n) : i \in Particles}] :
                (\A i \in Particles : row[i] \in OwnBeliefs(i, l, n))
                  <=> ENABLED (UpdateLogBelief /\ seqllr' = l /\ seqlen' = n
                               /\ xt' = row)
    /\ (pc = "response" /\ seqind = 1)
         => \A row \in [Particles -> Labels] :
              (\A i \in Particles : row[i] \in OwnResponses(i))
                <=> ENABLED (ComputeResponse /\ raft' = row)
    /\ (pc = "confidence" /\ seqind = 1 /\ fitcnf)
         => \A row \in [Particles -> Labels] :
              (\A i \in Particles : row[i] \in OwnConfidences(i))
                <=> ENABLED (ComputeConfidence /\ caft' = row)
C24_Witness ==
    /\ pc = "confidence" /\ ~resamp /\ sinf = 1 /\ seqind = 1 /\ iseq > 1
    /\ \E i, j \in Particles :
         /\ InferenceNoise(i) # InferenceNoise(j)
         /\ raft[i] # raft[j]

\* C25 -- resampling and reset write the belief row only.  After the
\* resampling step every particle still has the response and confidence its
\* own readout gave it, and a particle that did not survive has a response
\* or a confidence other than the observed one, whatever belief it now
\* holds; on a next trial of the block its previous response (confidence)
\* is that recorded output of its own.
C25_ResampleKeepsOutputs ==
    /\ (TrialDone /\ resamp)
         => \A i \in Particles :
              /\ raft[i] = OnePlusLess(xr[i], Zero)
              /\ fitcnf => caft[i] = OnePlusLess(tcnf, xc[i])
              /\ ~ires[i] => (raft[i] # cfg.raft \/ (fitcnf /\ caft[i] # cfg.caft))
    /\ (iseq >= 1 /\ seqind > 1 /\ pc # "state")
         => (rbef = prev.raft /\ (fitcnf => cbef = prev.caft))
C25_Witness ==
    /\ pc = "update" /\ seqind > 1 /\ resamp /\ ~fitcnf /\ sinf = 1
    /\ prev.psmp[1] > 0 /\ prev.psmp # ROne
    /\ rbef = prev.raft
    /\ \E i, j \in Particles : prev.xt[i] = prev.xt[j] /\ rbef[i] # rbef[j]

\* C26 -- on the first trial of a block, the first or a later block of the
\* run, every particle's belief is 0 until the evidence is added, and after
\* it the belief is the evidence plus the inference noise: nothing of the
\* trial before enters.
C26_BlockStartBelief ==
    (iseq >= 1 /\ seqind = 1)
      => /\ pc \in {"state", "update"} => \A i \in Particles : xt[i] = Zero
         /\ AfterEvidence
              => \A i \in Particles :
                   \E z \in Randn : xt[i] = Add(seqllr, Mul(z, Sqrt(seqlen) * sinf))
C26_Witness ==
    /\ iseq > 1 /\ seqind = 1 /\ pc = "response" /\ ~resamp /\ sinf = 0
    /\ \A i \in Particles : xt[i] = seqllr /\ xt[i] # Zero

\* C27 -- in a run that is not conditioned on the observations the survival
\* weight of every trial, the current and the one before, is exactly 1.
C27_ForwardWeightOne ==
    ~resamp => (psmp = ROne /\ prev.psmp = ROne)
C27_Witness ==
    /\ ~resamp /\ TrialDone /\ seqind > 1
    /\ psmp = <<1, 1>> /\ prev.psmp = <<1, 1>>
    /\ \A i \in Particles : prev.raft[i] \in Labels

\* all entries of the row are the same
Uniform(row) == \A i, j \in Particles : row[i] = row[j]

\* C28 -- without noise all particles hold the same belief, the same
\* response and the same confidence at every step of every trial,
\* conditioned or not, and every survival weight is 0 or 1.
C28_NoNoiseUniform ==
    NoNoise
      => /\ Uniform(xt) /\ Uniform(xr) /\ Uniform(xc)
         /\ Uniform(raft) /\ Uniform(caft) /\ Uniform(rbef) /\ Uniform(cbef)
         /\ Uniform(prev.xt) /\ Uniform(prev.raft) /\ Uniform(prev.caft)
         /\ psmp \in {<<0, 1>>, ROne} /\ prev.psmp \in {<<0, 1>>, ROne}
C28_Witness ==
    /\ NoNoise /\ h = <<1, 16>> /\ resamp /\ fitcnf /\ TrialDone /\ seqind > 1
    /\ prev.psmp = ROne /\ psmp = <<0, 1>>
    /\ Uniform(prev.xt) /\ prev.xt[1] # Zero /\ Uniform(raft) /\ Uniform(caft)

\* C29 -- for 0 < h < 1 the hazard correction maps the belief 0 to 0: on a
\* trial that continues a block whose last trial ended in a reset (no
\* survivor) every particle's belief before the evidence is 0, and after it
\* the evidence itself, as on the first trial of a block.
C29_ZeroFixedPoint ==
    (NoNoise /\ ValidParams /\ seqind > 1 /\ AfterEvidence)
      => \A i \in Particles :
           /\ prev.xt[i] = Zero => (BeforeEvidence(i) = Zero /\ xt[i] = seqllr)
           /\ (resamp /\ prev.psmp = <<0, 1>>) => prev.xt[i] = Zero
C29_Witness ==
    /\ NoNoise /\ h = <<1, 16>> /\ resamp /\ seqind > 1 /\ pc = "response"
    /\ prev.psmp = <<0, 1>>
    /\ \A i \in Particles : prev.xt[i] = Zero /\ xt[i] = seqllr /\ xt[i] # Zero

\* C30 -- the hazard correction pulls a finite belief toward 0 and keeps
\* its sign: for 0 < h < 1/2 and x # 0 the result lies strictly between 0
\* and x; for h = 1/2 the result is 0 for every x; and the correction is
\* odd, upfun(-x,h) = -upfun(x,h).
C30_ShrinkTowardZero ==
    (NoNoise /\ ValidParams /\ seqind > 1 /\ AfterEvidence)
      => \A i \in Particles :
           LET x == prev.xt[i]
               u == BeforeEvidence(i)
           IN  /\ 2 * h[1] = h[2] => u = Zero
               /\ 2 * h[1] < h[2]
                    => /\ Less(Zero, x) => (Less(Zero, u) /\ Less(u, x))
                       /\ Less(x, Zero) => (Less(x, u) /\ Less(u, Zero))
                       /\ x = Zero => u = Zero
               /\ upfun(Neg(x), h) = Neg(u)
C30_Witness ==
    /\ NoNoise /\ h = <<1, 16>> /\ seqind > 1 /\ pc = "confidence"
    /\ \E i \in Particles :
         /\ Less(prev.xt[i], Zero)
         /\ Less(prev.xt[i], BeforeEvidence(i))
         /\ Less(BeforeEvidence(i), Zero)

====
